---- MODULE Spec2Model ----
(***************************************************************************)
(* Model of the template-pipeline phase expandSafeReads                    *)
(* (packages/compiler/src/template/pipeline/src/phases/expand_safe_reads). *)
(*                                                                         *)
(* An expression is a record [k, n, id, ch]: k is the node kind, n a name  *)
(* (property name, variable name, operator, literal), id the xref of a     *)
(* temporary (0 when the kind has none) and ch the sequence of child       *)
(* expressions in the order the expression visitor walks them.             *)
(* Object identity plays no role: every node has one parent (clone() is    *)
(* deep), so the in-place update dst.expr = ... is the functional update   *)
(* of the deepest body of the receiver.                                    *)
(***************************************************************************)
EXTENDS Integers, Sequences, FiniteSets, TLC

VARIABLES
  ops,      \* the expressions of the job's ops, in iteration order (units, then ops)
  input,    \* the job as it was handed to the phase
  compat,   \* job.compatibility
  nextId,   \* the xref job.allocateXrefId() returns next
  i,        \* the op the loop of expandSafeReads is at
  pc,       \* the statement of the loop body that runs next
  again,    \* the phase has been started a second time on its own output
  lowered,  \* some safe ternary has been lowered since the phase started
  verdict   \* the last answer of needsTemporaryInSafeAccess

vars == <<ops, input, compat, nextId, i, pc, again, lowered, verdict>>

---------------------------------------------------------------------------
(* Bounds                                                                  *)

\* links of a simple chain (every index a bare reference)
MaxLinks == 3
\* links before and after the keyed link of a nested chain
MaxAround == 2
\* links of the chain that is the index of a nested chain
MaxInner == 1
\* instructions (ops) of a job
MaxOps == 2
\* nesting depth of the shapes the classifier is asked about
MaxShapeDepth == 2

\* first xref the job's allocator hands out
FirstXref == 1

---------------------------------------------------------------------------
(* Expression tree model                                                   *)

Node(k, n, id, ch) == [k |-> k, n |-> n, id |-> id, ch |-> ch]

ReadVarExpr(n) == Node("ReadVar", n, 0, <<>>)
LiteralExpr(n) == Node("Literal", n, 0, <<>>)
NULL_EXPR == LiteralExpr("null")
UnaryOperatorExpr(op, e) == Node("UnaryOperator", op, 0, <<e>>)
BinaryOperatorExpr(op, l, r) == Node("BinaryOperator", op, 0, <<l, r>>)
ConditionalExpr(c, t, f) == Node("Conditional", "", 0, <<c, t, f>>)
ConditionalNoElse(c, t) == Node("Conditional", "", 0, <<c, t>>)
NotExpr(c) == Node("Not", "", 0, <<c>>)
LiteralArrayExpr(entries) == Node("LiteralArray", "", 0, entries)
LiteralMapExpr(values) == Node("LiteralMap", "", 0, values)
ReadPropExpr(r, n) == Node("ReadProp", n, 0, <<r>>)
ReadKeyExpr(r, idx) == Node("ReadKey", "", 0, <<r, idx>>)
InvokeFunctionExpr(fn, args) == Node("InvokeFunction", "", 0, <<fn>> \o args)
SafePropertyReadExpr(r, n) == Node("SafePropertyRead", n, 0, <<r>>)
SafeKeyedReadExpr(r, idx) == Node("SafeKeyedRead", "", 0, <<r, idx>>)
SafeInvokeFunctionExpr(r, args) == Node("SafeInvokeFunction", "", 0, <<r>> \o args)
PipeBindingExpr(n, args) == Node("PipeBinding", n, 0, args)
AssignTemporaryExpr(e, xref) == Node("AssignTemporary", "", xref, <<e>>)
ReadTemporaryExpr(xref) == Node("ReadTemporary", "", xref, <<>>)
SafeTernaryExpr(guard, expr) == Node("SafeTernary", "", 0, <<guard, expr>>)

\* CompatibilityMode
TemplateDefinitionBuilder == "TemplateDefinitionBuilder"
Normal == "Normal"
CompatibilityMode == {Normal, TemplateDefinitionBuilder}

\* receiver / fn of an access, args of a call
Receiver(e) == e.ch[1]
Args(e) == SubSeq(e.ch, 2, Len(e.ch))

\* Expression.clone(): a deep structural copy
RECURSIVE clone(_)
clone(e) == Node(e.k, e.n, e.id, [j \in 1..Len(e.ch) |-> clone(e.ch[j])])

---------------------------------------------------------------------------
(* needsTemporaryInSafeAccess                                              *)

RequiresTemporary ==
  {"InvokeFunction", "LiteralArray", "LiteralMap", "SafeInvokeFunction", "PipeBinding"}

\* Mutant: the index of a keyed read is not looked at.
RECURSIVE needsTemporary_IgnoringIndex(_)
needsTemporary_IgnoringIndex(e) ==
  CASE e.k \in {"UnaryOperator", "Not", "AssignTemporary", "ReadProp", "ReadKey"} ->
         needsTemporary_IgnoringIndex(e.ch[1])
    [] e.k = "BinaryOperator" ->
         needsTemporary_IgnoringIndex(e.ch[1]) \/ needsTemporary_IgnoringIndex(e.ch[2])
    [] e.k = "Conditional" ->
         \E j \in 1..Len(e.ch) : needsTemporary_IgnoringIndex(e.ch[j])
    [] OTHER -> e.k \in RequiresTemporary

RECURSIVE needsTemporaryInSafeAccess(_)
needsTemporaryInSafeAccess(e) ==
  CASE e.k = "UnaryOperator" -> needsTemporaryInSafeAccess(e.ch[1])
    [] e.k = "BinaryOperator" ->
         needsTemporaryInSafeAccess(e.ch[1]) \/ needsTemporaryInSafeAccess(e.ch[2])
    [] e.k = "Conditional" ->
         IF Len(e.ch) = 3 /\ needsTemporaryInSafeAccess(e.ch[3])
         THEN TRUE
         ELSE needsTemporaryInSafeAccess(e.ch[1]) \/ needsTemporaryInSafeAccess(e.ch[2])
    [] e.k = "Not" -> needsTemporaryInSafeAccess(e.ch[1])
    [] e.k = "AssignTemporary" -> needsTemporaryInSafeAccess(e.ch[1])
    [] e.k = "ReadProp" -> needsTemporaryInSafeAccess(e.ch[1])
    [] e.k = "ReadKey" ->
         needsTemporaryInSafeAccess(e.ch[1]) \/ needsTemporaryInSafeAccess(e.ch[2])
    [] OTHER -> e.k \in RequiresTemporary

---------------------------------------------------------------------------
(* temporariesIn / eliminateTemporaryAssignments                           *)

\* Mutant: only e itself is looked at, not its descendants.
temporariesIn_RootOnly(e) == IF e.k = "AssignTemporary" THEN {e.id} ELSE {}

\* the visitor reaches every node of e, e itself included
RECURSIVE temporariesIn(_)
temporariesIn(e) ==
  (IF e.k = "AssignTemporary" THEN {e.id} ELSE {})
    \cup UNION {temporariesIn(e.ch[j]) : j \in 1..Len(e.ch)}

\* Mutant: the compatibility mode is not consulted, the read is always bare.
ElimCallback_AlwaysBareRead(e, tmps, mode) ==
  IF e.k = "AssignTemporary" /\ e.id \in tmps THEN ReadTemporaryExpr(e.id) ELSE e

\* The callback of eliminateTemporaryAssignments.
ElimCallback(e, tmps, mode) ==
  IF e.k = "AssignTemporary" /\ e.id \in tmps
  THEN IF mode = TemplateDefinitionBuilder
       THEN AssignTemporaryExpr(ReadTemporaryExpr(e.id), e.id)
       ELSE ReadTemporaryExpr(e.id)
  ELSE e

\* transformExpressionsInExpression with that callback: children first, then
\* the node itself.
RECURSIVE ElimVisit(_, _, _)
ElimVisit(e, tmps, mode) ==
  ElimCallback([e EXCEPT !.ch = [j \in 1..Len(e.ch) |-> ElimVisit(e.ch[j], tmps, mode)]],
               tmps, mode)

\* Mutant: the copy is returned as it is.
eliminateTemporaryAssignments_KeepAll(e, tmps, mode) == e

\* The value the visitor returns for the root is dropped (`return e`): the
\* root keeps its identity, its descendants are rewritten in place.
eliminateTemporaryAssignments(e, tmps, mode) ==
  [e EXCEPT !.ch = [j \in 1..Len(e.ch) |-> ElimVisit(e.ch[j], tmps, mode)]]

---------------------------------------------------------------------------
(* safeTernaryWithTemporary                                                *)

\* r.prop(name) / r.key(index) / r.callFn(args): the body callbacks of
\* safeTransform, chosen by the kind of the access e.
ApplyAccess(e, r) ==
  CASE e.k \in {"ReadProp", "SafePropertyRead"} -> ReadPropExpr(r, e.n)
    [] e.k \in {"ReadKey", "SafeKeyedRead"} -> ReadKeyExpr(r, e.ch[2])
    [] e.k \in {"InvokeFunction", "SafeInvokeFunction"} -> InvokeFunctionExpr(r, Args(e))

\* Mutant: the guard is always reused, never cached in a temporary.
safeTernaryWithTemporary_NeverTemporary(guard, acc, next, mode) ==
  [e |-> SafeTernaryExpr(guard,
            ApplyAccess(acc, eliminateTemporaryAssignments(clone(guard),
                                                          temporariesIn(guard), mode))),
   next |-> next]

\* Result: [e |-> the safe ternary, next |-> the allocator's next xref].
safeTernaryWithTemporary(guard, acc, next, mode) ==
  IF needsTemporaryInSafeAccess(guard)
  THEN [e |-> SafeTernaryExpr(AssignTemporaryExpr(guard, next),
                              ApplyAccess(acc, ReadTemporaryExpr(next))),
        next |-> next + 1]
  ELSE [e |-> SafeTernaryExpr(guard,
                 ApplyAccess(acc, eliminateTemporaryAssignments(clone(guard),
                                                               temporariesIn(guard), mode))),
        next |-> next]

---------------------------------------------------------------------------
(* safeTransform                                                           *)

isSafeAccessExpression(e) ==
  e.k \in {"SafePropertyRead", "SafeKeyedRead", "SafeInvokeFunction"}

isUnsafeAccessExpression(e) == e.k \in {"ReadProp", "ReadKey", "InvokeFunction"}

isAccessExpression(e) == isSafeAccessExpression(e) \/ isUnsafeAccessExpression(e)

\* dst.expr, for the safe ternary st heading the receiver of an access
RECURSIVE DeepestExpr(_)
DeepestExpr(st) ==
  IF st.ch[2].k = "SafeTernary" THEN DeepestExpr(st.ch[2]) ELSE st.ch[2]

\* Mutant: the body of the outermost safe ternary is written, not the deepest.
SetDeepestExpr_Outermost(st, x) == [st EXCEPT !.ch[2] = x]

\* the receiver after `dst.expr = x`
RECURSIVE SetDeepestExpr(_, _)
SetDeepestExpr(st, x) ==
  IF st.ch[2].k = "SafeTernary"
  THEN [st EXCEPT !.ch[2] = SetDeepestExpr(st.ch[2], x)]
  ELSE [st EXCEPT !.ch[2] = x]

\* deepestSafeTernary(e) # null
HasDeepestSafeTernary(e) == isAccessExpression(e) /\ Receiver(e).k = "SafeTernary"

safeTransform(e, next, mode) ==
  IF ~isAccessExpression(e) THEN [e |-> e, next |-> next]
  ELSE IF HasDeepestSafeTernary(e)
  THEN IF isUnsafeAccessExpression(e)
       THEN [e |-> SetDeepestExpr(Receiver(e), ApplyAccess(e, DeepestExpr(Receiver(e)))),
             next |-> next]
       ELSE LET r == safeTernaryWithTemporary(DeepestExpr(Receiver(e)), e, next, mode)
            IN [e |-> SetDeepestExpr(Receiver(e), r.e), next |-> r.next]
  ELSE IF isSafeAccessExpression(e)
       THEN safeTernaryWithTemporary(Receiver(e), e, next, mode)
       ELSE [e |-> e, next |-> next]

\* Mutant: the guard itself is the condition, without the comparison to null.
ternaryTransform_GuardAsCondition(e) ==
  IF e.k # "SafeTernary" THEN e
  ELSE ConditionalExpr(e.ch[1], NULL_EXPR, e.ch[2])

\* Mutant: a plain conditional is taken for a safe ternary and lowered as well.
ternaryTransform_AlsoConditional(e) ==
  IF e.k \notin {"SafeTernary", "Conditional"} THEN e
  ELSE ConditionalExpr(BinaryOperatorExpr("==", e.ch[1], NULL_EXPR), NULL_EXPR, e.ch[2])

ternaryTransform(e) ==
  IF e.k # "SafeTernary" THEN e
  ELSE ConditionalExpr(BinaryOperatorExpr("==", e.ch[1], NULL_EXPR), NULL_EXPR, e.ch[2])

---------------------------------------------------------------------------
(* The two sweeps of expandSafeReads over one op                           *)

\* transformExpressionsInOp(op, safeTransform): children left to right, then
\* the node; the allocator state is threaded through the walk.
RECURSIVE SafeVisit(_, _, _)
RECURSIVE SafeVisitChildren(_, _, _, _)
SafeVisitChildren(ch, j, next, mode) ==
  IF j > Len(ch) THEN [ch |-> ch, next |-> next]
  ELSE LET r == SafeVisit(ch[j], next, mode)
       IN SafeVisitChildren([ch EXCEPT ![j] = r.e], j + 1, r.next, mode)

SafeVisit(e, next, mode) ==
  LET r == SafeVisitChildren(e.ch, 1, next, mode)
  IN safeTransform([e EXCEPT !.ch = r.ch], r.next, mode)

\* transformExpressionsInOp(op, ternaryTransform)
RECURSIVE TernaryVisit(_)
TernaryVisit(e) ==
  ternaryTransform([e EXCEPT !.ch = [j \in 1..Len(e.ch) |-> TernaryVisit(e.ch[j])]])

---------------------------------------------------------------------------
(* Inputs: access chains over a base, as the template parser builds them   *)

\* a link of a chain: safe or plain; property read, keyed read or call
Link(safe, t, idx) == [safe |-> safe, t |-> t, idx |-> idx]

PropNames == <<"b", "c", "d", "e", "g", "h">>

\* the access node for link l on receiver r; pos names the property
ApplyLink(r, l, pos) ==
  CASE l.t = "prop" -> IF l.safe THEN SafePropertyReadExpr(r, PropNames[pos])
                                 ELSE ReadPropExpr(r, PropNames[pos])
    [] l.t = "key" -> IF l.safe THEN SafeKeyedReadExpr(r, l.idx)
                                ELSE ReadKeyExpr(r, l.idx)
    [] l.t = "call" -> IF l.safe THEN SafeInvokeFunctionExpr(r, <<>>)
                                 ELSE InvokeFunctionExpr(r, <<>>)

PropAndCallLinks == {Link(s, t, NULL_EXPR) : s \in BOOLEAN, t \in {"prop", "call"}}

KeyLinks(Idx) == {Link(s, "key", x) : s \in BOOLEAN, x \in Idx}

\* chains of exactly n links over the bases; pos is the position of the first
RECURSIVE ChainsExact(_, _, _, _)
ChainsExact(bases, links, n, pos) ==
  IF n = 0 THEN bases
  ELSE {ApplyLink(c, l, pos + n - 1) : c \in ChainsExact(bases, links, n - 1, pos),
                                       l \in links}

\* chains whose indexes are bare references: a, a.b, a?.b, a(), a?.[i].c, ...
SimpleLinks == PropAndCallLinks \cup KeyLinks({ReadVarExpr("i")})

SimpleChains(n) == ChainsExact({ReadVarExpr("a")}, SimpleLinks, n, 1)

\* the chains used as an index: over a bare reference and over a call
InnerChains(max) ==
  UNION {ChainsExact({ReadVarExpr("x"), InvokeFunctionExpr(ReadVarExpr("f"), <<>>)},
                     PropAndCallLinks, n, 1) : n \in 0..max}

\* chains with one keyed link whose index is a chain: p property or call links,
\* the keyed link k, s property or call links (a?.[f()?.b]?.c, a?.b[x?.()]?.c, ...)
NestedChains(p, k, s) ==
  UNION {ChainsExact({ApplyLink(pre, k, p + 1)}, PropAndCallLinks, s, p + 2)
         : pre \in ChainsExact({ReadVarExpr("a")}, PropAndCallLinks, p, 1)}

\* the ops after the first of a job
FurtherOps ==
  {SafePropertyReadExpr(ReadVarExpr("a"), "b"),
   SafePropertyReadExpr(InvokeFunctionExpr(ReadVarExpr("f"), <<>>), "b")}

\* the sequences of at most n further ops
RECURSIVE FurtherSeqs(_)
FurtherSeqs(n) ==
  IF n = 0 THEN {<<>>}
  ELSE FurtherSeqs(n - 1)
         \cup {Append(j, e) : j \in {x \in FurtherSeqs(n - 1) : Len(x) = n - 1},
                               e \in FurtherOps}

\* every expression kind around a deep child, the other children bare
ShapeLeaves ==
  {ReadVarExpr("a"), LiteralExpr("1"), ReadTemporaryExpr(FirstXref), LiteralArrayExpr(<<>>)}

ShapesAround(x) ==
  LET y == ReadVarExpr("y") IN
  {UnaryOperatorExpr("-", x), NotExpr(x), ReadPropExpr(x, "b"),
   SafePropertyReadExpr(x, "b"), AssignTemporaryExpr(x, FirstXref),
   LiteralArrayExpr(<<x>>), LiteralMapExpr(<<x>>), PipeBindingExpr("p", <<x>>),
   InvokeFunctionExpr(x, <<>>), InvokeFunctionExpr(y, <<x>>),
   SafeInvokeFunctionExpr(x, <<>>), SafeInvokeFunctionExpr(y, <<x>>),
   BinaryOperatorExpr("+", x, y), BinaryOperatorExpr("+", y, x),
   ReadKeyExpr(x, y), ReadKeyExpr(y, x),
   SafeKeyedReadExpr(x, y), SafeKeyedReadExpr(y, x),
   SafeTernaryExpr(x, y), SafeTernaryExpr(y, x),
   ConditionalNoElse(x, y), ConditionalNoElse(y, x),
   ConditionalExpr(x, y, y), ConditionalExpr(y, x, y), ConditionalExpr(y, y, x)}

RECURSIVE Shapes(_)
Shapes(d) ==
  IF d = 0 THEN ShapeLeaves
  ELSE Shapes(d - 1) \cup UNION {ShapesAround(x) : x \in Shapes(d - 1)}

---------------------------------------------------------------------------
(* expandSafeReads as a state machine: for each op, the safeTransform      *)
(* sweep and then the ternaryTransform sweep                               *)

\* Mutant: two job-wide sweeps, all ops expanded before the first is lowered.
StepAfter_JobWide(p, k, n) ==
  IF k < n THEN [pc |-> p, i |-> k + 1]
  ELSE IF p = "safe" THEN [pc |-> "ternary", i |-> 1]
  ELSE [pc |-> "done", i |-> k]

\* the statement that follows statement p on op k of a job of n ops
StepAfter(p, k, n) ==
  IF p = "safe" THEN [pc |-> "ternary", i |-> k]
  ELSE IF k < n THEN [pc |-> "safe", i |-> k + 1]
  ELSE [pc |-> "done", i |-> k]

InitJob(job) ==
  /\ ops = job
  /\ input = job
  /\ compat \in CompatibilityMode
  /\ nextId = FirstXref
  /\ i = 1
  /\ pc = "safe"
  /\ again = FALSE
  /\ lowered = FALSE
  /\ verdict = "none"

\* jobs of at most MaxOps ops whose first is a simple chain
Init ==
  \E n \in 0..MaxLinks : \E e \in SimpleChains(n) : \E rest \in FurtherSeqs(MaxOps - 1) :
    InitJob(<<e>> \o rest)

\* jobs of one op, a nested chain
InitNested ==
  \E p \in 0..MaxAround : \E s \in 0..(MaxAround - p) :
    \E k \in KeyLinks(InnerChains(MaxInner)) : \E e \in NestedChains(p, k, s) :
      InitJob(<<e>>)

\* ir.transformExpressionsInOp(op, (e) => safeTransform(e, {job}), None)
SafeSweep ==
  /\ pc = "safe"
  /\ LET r == SafeVisit(ops[i], nextId, compat)
     IN /\ ops' = [ops EXCEPT ![i] = r.e]
        /\ nextId' = r.next
  /\ pc' = StepAfter(pc, i, Len(ops)).pc
  /\ i' = StepAfter(pc, i, Len(ops)).i
  /\ UNCHANGED <<input, compat, again, lowered, verdict>>

\* ir.transformExpressionsInOp(op, ternaryTransform, None)
TernarySweep ==
  /\ pc = "ternary"
  /\ ops' = [ops EXCEPT ![i] = TernaryVisit(ops[i])]
  /\ lowered' = (lowered \/ ops' # ops)
  /\ pc' = StepAfter(pc, i, Len(ops)).pc
  /\ i' = StepAfter(pc, i, Len(ops)).i
  /\ UNCHANGED <<input, compat, nextId, again, verdict>>

\* expandSafeReads(job) is called again on the job it has rewritten
RunAgain ==
  /\ pc = "done"
  /\ ~again
  /\ again' = TRUE
  /\ i' = 1
  /\ pc' = "safe"
  /\ lowered' = FALSE
  /\ UNCHANGED <<ops, input, compat, nextId, verdict>>

Next == SafeSweep \/ TernarySweep \/ RunAgain

Spec == Init /\ [][Next]_vars

SpecNested == InitNested /\ [][Next]_vars

\* needsTemporaryInSafeAccess asked about one expression
InitClassifier ==
  /\ \E x \in Shapes(MaxShapeDepth - 1) : ops \in {<<e>> : e \in {x} \cup ShapesAround(x)}
  /\ input = ops
  /\ compat = Normal
  /\ nextId = FirstXref
  /\ i = 1
  /\ pc = "classify"
  /\ again = FALSE
  /\ lowered = FALSE
  /\ verdict = "none"

Classify ==
  /\ pc = "classify"
  /\ verdict' = IF needsTemporaryInSafeAccess(ops[1]) THEN "yes" ELSE "no"
  /\ pc' = "classified"
  /\ UNCHANGED <<ops, input, compat, nextId, i, again, lowered>>

NextClassifier == Classify

SpecClassifier == InitClassifier /\ [][NextClassifier]_vars

TypeOK ==
  /\ pc \in {"safe", "ternary", "done", "classify", "classified"}
  /\ i \in 1..Len(ops)
  /\ again \in BOOLEAN
  /\ lowered \in BOOLEAN
  /\ verdict \in {"none", "yes", "no"}
  /\ nextId >= FirstXref

---------------------------------------------------------------------------
(* Reading a tree: positions, kinds, counts                                *)

\* the nodes of e, one entry per occurrence, parents before children
RECURSIVE Nodes(_)
RECURSIVE NodesFrom(_, _)
NodesFrom(ch, j) == IF j > Len(ch) THEN <<>> ELSE Nodes(ch[j]) \o NodesFrom(ch, j + 1)

Nodes(e) == <<e>> \o NodesFrom(e.ch, 1)

\* the number of entries of the sequence ns that are in the set S
CountIn(ns, S) == Cardinality({h \in 1..Len(ns) : ns[h] \in S})

\* the number of nodes of e whose kind is in K
CountKinds(e, K) ==
  LET ns == Nodes(e) IN Cardinality({h \in 1..Len(ns) : ns[h].k \in K})

SafeAccessKinds == {"SafePropertyRead", "SafeKeyedRead", "SafeInvokeFunction"}

\* conditional(guard == null, null, body)
IsNullCheck(e) ==
  /\ e.k = "Conditional"
  /\ Len(e.ch) = 3
  /\ e.ch[1].k = "BinaryOperator" /\ e.ch[1].n = "==" /\ e.ch[1].ch[2] = NULL_EXPR
  /\ e.ch[2] = NULL_EXPR

\* e with every null check read back as the safe ternary it states
RECURSIVE Raise(_)
Raise(e) ==
  IF IsNullCheck(e) THEN SafeTernaryExpr(Raise(e.ch[1].ch[1]), Raise(e.ch[3]))
  ELSE [e EXCEPT !.ch = [j \in 1..Len(e.ch) |-> Raise(e.ch[j])]]

\* op j has been through both sweeps
Expanded(j) == again \/ pc = "done" \/ j < i

---------------------------------------------------------------------------
(* C7: After the phase has run over an op, no safe ternary and no safe     *)
(* access (safe property read, safe keyed read, safe call) is left in it   *)
(* at any depth, and the lowering sweep turned every safe ternary          *)
(* (guard, body) into conditional(guard == null, null, body) with the same *)
(* guard and body and changed nothing else.                                *)
C7_NoSafeNodeLeft ==
  \A j \in 1..Len(ops) :
    Expanded(j) => CountKinds(ops[j], SafeAccessKinds \cup {"SafeTernary"}) = 0

C7_LoweringKeepsGuardAndBody ==
  (pc = "ternary" /\ ~again) =>
    /\ CountKinds(ops[i], SafeAccessKinds) = 0
    /\ Raise(ops'[i]) = ops[i]
    /\ CountKinds(ops'[i], {"Conditional"}) = CountKinds(ops[i], {"SafeTernary"})

C7_Lowered == []C7_NoSafeNodeLeft /\ [][C7_LoweringKeepsGuardAndBody]_vars

\* a chain with a safe access inside an index and a guard copied into a body
\* has been lowered: three null checks, one of them inside a copied guard
C7_Witness ==
  /\ pc = "done" /\ ~again
  /\ CountKinds(input[1], SafeAccessKinds) = 2
  /\ CountKinds(ops[1], {"Conditional"}) = 3

---------------------------------------------------------------------------
(* C8: A second run of the phase over the job the first run produced       *)
(* changes no expression and allocates no xref.                            *)
C8_SecondRunChangesNothing == [][again => ops' = ops /\ nextId' = nextId]_vars

C8_Witness ==
  /\ again /\ pc = "done"
  /\ ops # input
  /\ nextId > FirstXref

---------------------------------------------------------------------------
(* C10 as claimed: over the whole job the lowering sweep starts only after *)
(* the last chain-expansion step: no expansion step changes an op once a   *)
(* safe ternary has been lowered.                                          *)
C10_NoExpansionAfterLowering == [][(pc = "safe" /\ ops' # ops) => ~lowered]_vars

(* C10 as the phase runs: the two sweeps alternate op by op. The lowering  *)
(* of an op directly follows the expansion of that same op, when no safe   *)
(* access is left in it; the ops after it are still as they came in, the   *)
(* ops before it are fully lowered.                                        *)
C10_SweepsAlternatePerOp ==
  [][/\ pc = "safe" =>
          /\ pc' = "ternary" /\ i' = i
          /\ \A j \in 1..(i - 1) :
               CountKinds(ops[j], SafeAccessKinds \cup {"SafeTernary"}) = 0
     /\ pc = "ternary" =>
          /\ CountKinds(ops[i], SafeAccessKinds) = 0
          /\ ~again => \A j \in (i + 1)..Len(ops) : ops[j] = input[j]
    ]_vars

\* the second op is expanded after the first has been lowered
C10_Witness ==
  /\ pc = "ternary" /\ i = 2 /\ lowered /\ ~again
  /\ CountKinds(ops[2], {"SafeTernary"}) > 0
  /\ CountKinds(ops[1], {"Conditional"}) > 0

---------------------------------------------------------------------------
(* C9: needsTemporaryInSafeAccess(e) holds exactly when a call, array      *)
(* literal, map literal, safe call or pipe binding is e itself or is       *)
(* reached from e by descending only through the operand of a unary        *)
(* operator or a not, the sides of a binary operator, the condition and    *)
(* branches of a conditional, the inner expression of an assign-temporary, *)
(* the receiver of a property read, the receiver and index of a keyed      *)
(* read. For every other shape it is false, whatever the shape contains.   *)

\* the children the search descends into
Descends(e) ==
  IF e.k \in {"UnaryOperator", "Not", "BinaryOperator", "Conditional",
              "AssignTemporary", "ReadProp", "ReadKey"}
  THEN 1..Len(e.ch) ELSE {}

\* the nodes reached by descending only through those children
RECURSIVE Reached(_)
Reached(e) == {e} \cup UNION {Reached(e.ch[j]) : j \in Descends(e)}

C9_ClassifierIsReachability ==
  pc = "classified" =>
    /\ verdict = "yes" <=> \E x \in Reached(ops[1]) : x.k \in RequiresTemporary
    /\ ops[1].k \in {"Literal", "ReadVar", "ReadTemporary", "SafePropertyRead",
                     "SafeKeyedRead", "SafeTernary"} => verdict = "no"

\* a call found two levels down through an index, and a call hidden from the
\* search by a safe ternary
C9_Witness ==
  /\ pc = "classified"
  /\ \/ /\ verdict = "yes"
        /\ ops[1].k = "ReadKey" /\ ops[1].ch[2].k = "UnaryOperator"
        /\ ops[1].ch[2].ch[1].k = "LiteralArray"
     \/ /\ verdict = "no"
        /\ ops[1].k = "SafeTernary" /\ ops[1].ch[2].k = "InvokeFunction"

---------------------------------------------------------------------------
(* Reading a chain                                                         *)

\* the access nodes of a chain, innermost first, and the base under them
RECURSIVE ChainLinks(_)
ChainLinks(e) ==
  IF isAccessExpression(e) THEN Append(ChainLinks(Receiver(e)), e) ELSE <<>>

RECURSIVE ChainBase(_)
ChainBase(e) == IF isAccessExpression(e) THEN ChainBase(Receiver(e)) ELSE e

\* the chain with every access made plain
RECURSIVE MadePlain(_)
MadePlain(e) ==
  IF isAccessExpression(e) THEN ApplyAccess(e, MadePlain(Receiver(e))) ELSE e

SafeLinkCount(e) ==
  Cardinality({j \in 1..Len(ChainLinks(e)) : isSafeAccessExpression(ChainLinks(e)[j])})

\* the receiver of the first safe link of a chain that has one
BaseReceiver(e) ==
  LET ls == ChainLinks(e)
      f == CHOOSE j \in 1..Len(ls) :
             /\ isSafeAccessExpression(ls[j])
             /\ \A h \in 1..(j - 1) : ~isSafeAccessExpression(ls[h])
  IN Receiver(ls[f])

NullCheck(guard, body) ==
  ConditionalExpr(BinaryOperatorExpr("==", guard, NULL_EXPR), NULL_EXPR, body)

\* one null check per safe link from link j on, each guard the plain prefix,
\* the innermost body the whole chain made plain
RECURSIVE NestPlain(_, _)
NestPlain(ls, j) ==
  IF j > Len(ls) THEN MadePlain(ls[Len(ls)])
  ELSE IF isSafeAccessExpression(ls[j])
  THEN NullCheck(MadePlain(Receiver(ls[j])), NestPlain(ls, j + 1))
  ELSE NestPlain(ls, j + 1)

\* the same, read left to right with the prefix cur built so far: a prefix
\* that needs a temporary is assigned to the next xref and the chain goes on
\* from the read of that temporary
RECURSIVE NestWithTemporaries(_, _, _, _)
NestWithTemporaries(ls, j, cur, next) ==
  IF j > Len(ls) THEN cur
  ELSE IF ~isSafeAccessExpression(ls[j])
  THEN NestWithTemporaries(ls, j + 1, ApplyAccess(ls[j], cur), next)
  ELSE IF needsTemporaryInSafeAccess(cur)
  THEN NullCheck(AssignTemporaryExpr(cur, next),
                 NestWithTemporaries(ls, j + 1,
                                     ApplyAccess(ls[j], ReadTemporaryExpr(next)), next + 1))
  ELSE NullCheck(cur, NestWithTemporaries(ls, j + 1, ApplyAccess(ls[j], cur), next))

\* the first op is a chain the claim covers and has been through the phase
C4_Covered ==
  /\ Expanded(1)
  /\ SafeLinkCount(input[1]) >= 1
  /\ ~needsTemporaryInSafeAccess(BaseReceiver(input[1]))

---------------------------------------------------------------------------
(* C4 as claimed: a chain whose base receiver needs no temporary, with     *)
(* k >= 1 safe links, becomes k nested null checks, the i-th guard being   *)
(* the plain chain prefix before the i-th safe link and the innermost body *)
(* the whole chain made plain.                                             *)
C4_GuardsArePlainPrefixes ==
  C4_Covered => ops[1] = NestPlain(ChainLinks(input[1]), 1)

(* C4 as the phase behaves: k nested null checks, one per safe link, a     *)
(* plain link adding none. The i-th guard is the plain chain prefix before *)
(* the i-th safe link when that prefix needs no temporary; when it does    *)
(* (it holds a call), the guard is assign-temporary(prefix, t) for a fresh *)
(* t and the deeper guards and the innermost body continue the chain from  *)
(* read-temporary(t).                                                      *)
C4_GuardsArePrefixesOrTemporaries ==
  C4_Covered =>
    /\ ops[1] = NestWithTemporaries(ChainLinks(input[1]), 1, ChainBase(input[1]), FirstXref)
    /\ CountKinds(ops[1], {"Conditional"}) = SafeLinkCount(input[1])

\* a?.b?.c.d and its like: two safe links, then a plain link folded into the
\* deepest body, no temporary
C4_Witness ==
  /\ pc = "done" /\ C4_Covered
  /\ Len(ChainLinks(input[1])) = 3
  /\ SafeLinkCount(input[1]) = 2
  /\ ~isSafeAccessExpression(input[1])
  /\ ops[1] = NestPlain(ChainLinks(input[1]), 1)

---------------------------------------------------------------------------
(* C5: when a safe access is expanded with guard G, a fresh xref is        *)
(* allocated exactly when the classifier holds of G. Then the guard of the *)
(* safe ternary is assign-temporary(G, id), the body applies the access to *)
(* read-temporary(id), and G occurs once. Otherwise the guard is G itself, *)
(* no xref is allocated and no temporary node is introduced.               *)

\* the nodes down the receiver side of e
RECURSIVE Spine(_)
Spine(e) ==
  {e} \cup (IF isUnsafeAccessExpression(e) \/ e.k \in {"SafeTernary", "AssignTemporary"}
            THEN Spine(e.ch[1]) ELSE {})

\* an assign-temporary that defines its temporary (not the self-assignment)
Defines(e) == e.k = "AssignTemporary" /\ e.ch[1] # ReadTemporaryExpr(e.id)

DefiningCount(e) ==
  LET ns == Nodes(e) IN Cardinality({h \in 1..Len(ns) : Defines(ns[h])})

C5_TernaryOK(st) ==
  LET g == st.ch[1] IN
  IF g.k = "AssignTemporary"
  THEN /\ needsTemporaryInSafeAccess(g.ch[1])
       /\ g.id \in FirstXref..(nextId - 1)
       /\ \E x \in Spine(st.ch[2]) :
            isUnsafeAccessExpression(x) /\ Receiver(x) = ReadTemporaryExpr(g.id)
       /\ CountIn(Nodes(st), {g.ch[1]}) = 1
  ELSE /\ ~needsTemporaryInSafeAccess(g)
       /\ g \in Spine(st.ch[2])

C5_TemporaryIffNeeded ==
  (pc = "ternary" /\ ~again) =>
    /\ LET ns == Nodes(ops[i])
       IN \A h \in 1..Len(ns) : ns[h].k = "SafeTernary" => C5_TernaryOK(ns[h])
    /\ CountKinds(ops[i], {"SafeTernary"}) = CountKinds(input[i], SafeAccessKinds)
    /\ LET made == DefiningCount(ops[i])
           ns == Nodes(ops[i])
       IN /\ made = Cardinality({h \in 1..Len(ns) :
                                   /\ ns[h].k = "SafeTernary"
                                   /\ ns[h].ch[1].k = "AssignTemporary"})
          /\ made = 0 => CountKinds(ops[i], {"AssignTemporary", "ReadTemporary"}) = 0
          /\ i = 1 => nextId = FirstXref + made

\* a?.b()?.c and its like: the first safe link reuses its guard, the second
\* caches a guard that holds a call
C5_Witness ==
  /\ pc = "ternary" /\ ~again /\ i = 1
  /\ CountKinds(ops[1], {"SafeTernary"}) = 2
  /\ nextId = FirstXref + 1
  /\ ops[1].ch[1].k = "ReadVar"

---------------------------------------------------------------------------
(* Evaluating the output                                                   *)

Max(x, y) == IF x >= y THEN x ELSE y

\* the most evaluations of calls, pipes, array and map literals on one
\* evaluation of e: a conditional evaluates its condition and one branch
RECURSIVE MaxEvals(_)
RECURSIVE SumMaxEvals(_, _)
SumMaxEvals(ch, j) ==
  IF j > Len(ch) THEN 0 ELSE MaxEvals(ch[j]) + SumMaxEvals(ch, j + 1)

MaxEvals(e) ==
  IF e.k = "Conditional"
  THEN MaxEvals(e.ch[1])
         + Max(MaxEvals(e.ch[2]), IF Len(e.ch) = 3 THEN MaxEvals(e.ch[3]) ELSE 0)
  ELSE (IF e.k \in RequiresTemporary THEN 1 ELSE 0) + SumMaxEvals(e.ch, 1)

---------------------------------------------------------------------------
(* C1: in the expression the phase produces, every side-effecting          *)
(* sub-expression of the input (call, safe call, pipe binding, array or    *)
(* map literal) is evaluated exactly once on any evaluation path that      *)
(* reaches it, also when the guard holds an already expanded safe access:  *)
(* no evaluation of the output runs more of them than the input has.       *)
C1_EffectsEvaluatedOnce ==
  pc = "done" =>
    \A j \in 1..Len(ops) : MaxEvals(ops[j]) <= CountKinds(input[j], RequiresTemporary)

---------------------------------------------------------------------------
(* Temporaries of the job                                                  *)

\* the nodes of all ops of the job
JobNodes == NodesFrom(ops, 1)

Allocated == FirstXref..(nextId - 1)

\* the assign-temporary nodes of the sequence ns that assign temporary t
AssignsOf(ns, t) == {h \in 1..Len(ns) : ns[h].k = "AssignTemporary" /\ ns[h].id = t}

SelfAssignment(t) == AssignTemporaryExpr(ReadTemporaryExpr(t), t)

---------------------------------------------------------------------------
(* C2 as claimed: at completion, in either compatibility mode, each        *)
(* temporary occurs in at most one assign-temporary node; every other node *)
(* referencing it is a read-temporary.                                     *)
C2_OneAssignPerTemporary ==
  pc = "done" => \A t \in Allocated : Cardinality(AssignsOf(JobNodes, t)) <= 1

(* C2 as the phase behaves: at completion each temporary has exactly one   *)
(* assign-temporary node that defines it. In standard mode that is its     *)
(* only assign-temporary and every other node referencing it is a          *)
(* read-temporary; in legacy mode the other nodes referencing it are       *)
(* read-temporary nodes or the self-assignment of the temporary.           *)
C2_OneDefinitionPerTemporary ==
  pc = "done" =>
    LET ns == JobNodes IN
    /\ \A t \in Allocated :
         /\ Cardinality({h \in AssignsOf(ns, t) : Defines(ns[h])}) = 1
         /\ \A h \in AssignsOf(ns, t) : Defines(ns[h]) \/ ns[h] = SelfAssignment(t)
         /\ compat = Normal => Cardinality(AssignsOf(ns, t)) = 1
    /\ \A h \in 1..Len(ns) :
         ns[h].id # 0 =>
           /\ ns[h].k \in {"AssignTemporary", "ReadTemporary"}
           /\ ns[h].id \in Allocated

\* legacy mode: a guard holding a temporary has been copied into a body
C2_Witness ==
  /\ pc = "done" /\ ~again
  /\ compat = TemplateDefinitionBuilder
  /\ \E t \in Allocated : Cardinality(AssignsOf(JobNodes, t)) = 2

---------------------------------------------------------------------------
(* Legacy output against standard output                                   *)

\* what the phase makes of e in standard mode, from the first xref
StandardRun(e) == SafeVisit(e, FirstXref, Normal)

StandardOutput(e) == TernaryVisit(StandardRun(e).e)

\* e with every read-temporary wrapped into the self-assignment
RECURSIVE WrapEveryRead(_)
WrapEveryRead(e) ==
  IF e.k = "ReadTemporary" THEN SelfAssignment(e.id)
  ELSE [e EXCEPT !.ch = [j \in 1..Len(e.ch) |-> WrapEveryRead(e.ch[j])]]

\* e with the read-temporary nodes that are the guard of a null check wrapped
RECURSIVE WrapGuardReads(_)
WrapGuardReads(e) ==
  IF IsNullCheck(e) /\ e.ch[1].ch[1].k = "ReadTemporary"
  THEN NullCheck(SelfAssignment(e.ch[1].ch[1].id), WrapGuardReads(e.ch[3]))
  ELSE [e EXCEPT !.ch = [j \in 1..Len(e.ch) |-> WrapGuardReads(e.ch[j])]]

---------------------------------------------------------------------------
(* C3 as claimed: the legacy output is the standard output with the        *)
(* self-assignment at every position where the standard output has a bare  *)
(* read-temporary, and is identical elsewhere.                             *)
C3_LegacyWrapsEveryRead ==
  (pc = "done" /\ compat = TemplateDefinitionBuilder /\ Len(ops) = 1) =>
    ops[1] = WrapEveryRead(StandardOutput(input[1]))

(* C3 as the phase behaves: with the same xrefs allocated, the legacy      *)
(* output is the standard output with the self-assignment at the positions *)
(* where deduplication put a read-temporary for a copied assign-temporary  *)
(* (the guards of the copied null checks); every other read-temporary, the *)
(* stand-in for a freshly assigned guard included, is bare in both.        *)
C3_LegacyWrapsDeduplicatedReads ==
  (pc = "done" /\ compat = TemplateDefinitionBuilder /\ Len(ops) = 1) =>
    /\ ops[1] = WrapGuardReads(StandardOutput(input[1]))
    /\ nextId = StandardRun(input[1]).next
    /\ LET ns == Nodes(ops[1])
       IN \A t \in Allocated : \E h \in 1..Len(ns) :
            /\ isUnsafeAccessExpression(ns[h])
            /\ Receiver(ns[h]) = ReadTemporaryExpr(t)

\* legacy output that differs from the standard one
C3_Witness ==
  /\ pc = "done" /\ ~again /\ compat = TemplateDefinitionBuilder
  /\ ops[1] # StandardOutput(input[1])
  /\ CountIn(Nodes(ops[1]), {SelfAssignment(FirstXref)}) > 0

---------------------------------------------------------------------------
(* C6: when a guard G is reused without a temporary, the copy of G in the  *)
(* body of the safe ternary is G with every assign-temporary replaced by   *)
(* the read-temporary of the same xref (legacy mode: by the                *)
(* self-assignment of that read); no assign-temporary of the copy keeps    *)
(* its defining expression. For a?.[f()?.b]?.c the call f() occurs once in *)
(* the output.                                                             *)

\* G with every assign-temporary replaced, top down
RECURSIVE Deduplicated(_, _)
Deduplicated(e, mode) ==
  IF e.k = "AssignTemporary"
  THEN IF mode = Normal THEN ReadTemporaryExpr(e.id) ELSE SelfAssignment(e.id)
  ELSE [e EXCEPT !.ch = [j \in 1..Len(e.ch) |-> Deduplicated(e.ch[j], mode)]]

DedupExample ==
  SafePropertyReadExpr(
    SafeKeyedReadExpr(ReadVarExpr("a"),
      SafePropertyReadExpr(InvokeFunctionExpr(ReadVarExpr("f"), <<>>), "b")),
    "c")

\* st reuses a guard that holds the definition of a temporary: the body is
\* built on the deduplicated copy of the guard
C6_CopyOK(st) ==
  (st.ch[1].k # "AssignTemporary" /\ DefiningCount(st.ch[1]) > 0) =>
    \E c \in Spine(st.ch[2]) :
      /\ c = Deduplicated(st.ch[1], compat)
      /\ DefiningCount(c) = 0

C6_CopiedGuardReadsTemporaries ==
  /\ (pc = "ternary" /\ ~again) =>
       LET ns == Nodes(ops[i])
       IN \A h \in 1..Len(ns) : ns[h].k = "SafeTernary" => C6_CopyOK(ns[h])
  /\ (pc = "done" /\ input[1] = DedupExample) =>
       CountKinds(ops[1], {"InvokeFunction"}) = 1

\* a guard that holds a temporary assignment has been copied into a body
C6_Witness ==
  /\ pc = "ternary" /\ ~again
  /\ LET ns == Nodes(ops[i])
     IN \E h \in 1..Len(ns) :
          /\ ns[h].k = "SafeTernary"
          /\ ns[h].ch[1].k # "AssignTemporary"
          /\ temporariesIn(ns[h].ch[1]) # {}
          /\ DefiningCount(ns[h].ch[1]) > 0

====
